---- MODULE Spec2Model ----
(***************************************************************************)
(* BotDetector (src/BotGuardLib/src/lib.rs): a HashSet of lowercased regex  *)
(* fragments and one Regex compiled from their "|"-join.                   *)
(*                                                                         *)
(* Strings are sequences of one-character strings.  The HashSet is kept as *)
(* the sequence of its elements in iteration order (no duplicates); the    *)
(* compiled Regex is kept as the pattern string it was compiled from.      *)
(***************************************************************************)
EXTENDS Naturals, Sequences, FiniteSets, TLC

VARIABLES
  status,               \* "none": no detector; "ok": the last new/append/remove returned; "panicked": it unwound
  user_agent_patterns,  \* field user_agent_patterns, in iteration order
  user_agents_regex,    \* field user_agents_regex, as its pattern string
  last,                 \* history: the last call, its arguments and the fields before it
  trip                  \* history: the fields before an append([f]) that a remove([f]) follows

vars == <<status, user_agent_patterns, user_agents_regex, last, trip>>

\* ---------------------------------------------------------------- bounds

\* Largest number of fragments the model lets the set hold.
MaxPatterns == 3

\* Largest number of fragments in one append / remove argument.
MaxArgs == 2

\* ------------------------------------------------------- strings (std)

Range(s) == { s[i] : i \in 1..Len(s) }

\* char::to_ascii_lowercase on the model's alphabet
LowerChar(c) ==
  CASE c = "A" -> "a"
    [] c = "B" -> "b"
    [] OTHER -> c

\* str::to_ascii_lowercase
to_ascii_lowercase(s) == [ i \in 1..Len(s) |-> LowerChar(s[i]) ]

\* str::lines: split at "\n"; a final line ending yields no empty last line
RECURSIVE LinesFrom(_, _, _)
LinesFrom(s, i, cur) ==
  IF i > Len(s) THEN (IF cur = <<>> THEN <<>> ELSE <<cur>>)
  ELSE IF s[i] = "\n" THEN <<cur>> \o LinesFrom(s, i + 1, <<>>)
  ELSE LinesFrom(s, i + 1, Append(cur, s[i]))

lines(s) == LinesFrom(s, 1, <<>>)

\* l.trim().is_empty(): every character of the line is whitespace
TrimIsEmpty(l) == \A i \in 1..Len(l) : l[i] = " "

\* str::trim: the line without its leading and trailing whitespace
RECURSIVE trim(_)
trim(l) ==
  IF l = <<>> THEN <<>>
  ELSE IF Head(l) = " " THEN trim(Tail(l))
  ELSE IF l[Len(l)] = " " THEN trim(SubSeq(l, 1, Len(l) - 1))
  ELSE l

\* [String]::join("|")
RECURSIVE Join(_)
Join(ss) ==
  IF ss = <<>> THEN <<>>
  ELSE IF Len(ss) = 1 THEN ss[1]
  ELSE ss[1] \o <<"|">> \o Join(Tail(ss))

\* The orders in which a HashSet holding exactly the elements S may iterate.
RECURSIVE Layouts(_)
Layouts(S) ==
  IF S = {} THEN { <<>> }
  ELSE UNION { { <<e>> \o q : q \in Layouts(S \ {e}) } : e \in S }

\* ------------------------------------------------------ regex (crate)

\* Parser and matcher of the regex crate on the model's syntax: literals,
\* "|", "(" ")", "^" and "$".  ParseAlt / ParseConcat read pattern p from
\* index i and carry the set S of input offsets a match may have reached;
\* they return whether the syntax is valid, the index after what they read,
\* and the offsets reached.
RECURSIVE ParseAlt(_, _, _, _), ParseConcat(_, _, _, _)
ParseConcat(p, i, x, S) ==
  IF i > Len(p) \/ p[i] \in { "|", ")" }
  THEN [ok |-> TRUE, next |-> i, ends |-> S]
  ELSE IF p[i] = "("
  THEN LET r == ParseAlt(p, i + 1, x, S)
       IN IF r.ok /\ r.next <= Len(p) /\ p[r.next] = ")"
          THEN ParseConcat(p, r.next + 1, x, r.ends)
          ELSE [ok |-> FALSE, next |-> r.next, ends |-> {}]
  ELSE IF p[i] = "^"
  THEN ParseConcat(p, i + 1, x, { s \in S : s = 0 })
  ELSE IF p[i] = "$"
  THEN ParseConcat(p, i + 1, x, { s \in S : s = Len(x) })
  ELSE ParseConcat(p, i + 1, x, { s + 1 : s \in { t \in S : t < Len(x) /\ x[t + 1] = p[i] } })

ParseAlt(p, i, x, S) ==
  LET r == ParseConcat(p, i, x, S)
  IN IF r.ok /\ r.next <= Len(p) /\ p[r.next] = "|"
     THEN LET r2 == ParseAlt(p, r.next + 1, x, S)
          IN [ok |-> r2.ok, next |-> r2.next, ends |-> r.ends \cup r2.ends]
     ELSE r

\* Regex::new(p).is_ok(): the whole pattern parses (no unclosed or unopened group)
RegexValid(p) ==
  LET r == ParseAlt(p, 1, <<>>, {0})
  IN r.ok /\ r.next = Len(p) + 1

\* Regex::is_match: the pattern matches somewhere in x
is_match(p, x) == ParseAlt(p, 1, x, 0..Len(x)).ends # {}


\* ------------------------------------------------------ model inputs

Str0 == <<>>

\* Fragments a caller passes to append / remove.
Fragments ==
  { Str0, <<"a">>, <<"A">>, <<"b">>, <<"(", "a">>, <<"b", ")", "c">> }

\* Argument slices of append / remove: no fragment, every single fragment,
\* and slices of several fragments, up to MaxArgs of them.
ArgPool ==
  { <<>> } \cup { <<f>> : f \in Fragments } \cup
  { << <<"(", "a">>, <<"b", ")", "c">> >>,
    << <<"A">>, <<"b">> >>,
    << <<"a">>, <<"A">> >>,
    << Str0, <<"a">> >>,
    << <<"b">>, <<"(", "a">> >>,
    << <<"a">>, <<"b">>, Str0 >>,
    << <<"(", "a">>, <<"b", ")", "c">>, <<"a">> >> }

ArgLists == { fs \in ArgPool : Len(fs) <= MaxArgs }

\* Texts a caller passes to new.
Texts ==
  { Str0,
    <<" ", "\n", " ">>,
    <<"a">>,
    <<"B", "c">>,
    <<"A", "\n", "b">>,
    <<"a", "\n", "A", "\n">>,
    <<" ", "a">>,
    <<"(", "a", "\n", "b", ")", "c">>,
    <<"(", "a">> }

\* User-agent strings a caller passes to check_bot.
Inputs ==
  { Str0, <<"a">>, <<"A">>, <<"b">>, <<"c">>, <<"c", "a">>, <<"B", "c">>, <<"b", "c">>,
    <<"a", "c">> }

\* --------------------------------------------------------- BotDetector

\* Mutant of to_regex: the empty joined pattern is compiled as it is.
to_regex_unguarded(regex_entries) == Join(regex_entries)

\* The pattern to_regex compiles: the entries joined with "|" in iteration
\* order, or "^$" when the joined pattern is the empty string.
to_regex(regex_entries) ==
  LET pattern == Join(regex_entries)
  IN IF pattern = <<>> THEN <<"^", "$">> ELSE pattern

\* Regex::new(..).unwrap() in to_regex panics
to_regex_panics(regex_entries) == ~RegexValid(to_regex(regex_entries))

\* parse_lines: the lines that are not blank after trimming, kept as they are
parse_lines(bot_regex_entries) ==
  LET ls == lines(bot_regex_entries)
  IN { ls[i] : i \in { j \in 1..Len(ls) : ~TrimIsEmpty(ls[j]) } }

\* Mutant of Inserted: the arguments are inserted without lowercasing.
Inserted_raw(patterns, fs) == Range(patterns) \cup { fs[i] : i \in 1..Len(fs) }

\* The elements of the set after HashSet::insert of each lowercased argument
Inserted(patterns, fs) ==
  Range(patterns) \cup { to_ascii_lowercase(fs[i]) : i \in 1..Len(fs) }

\* Mutant of InsertAll: the arguments replace the set instead of joining it.
InsertAll_replace(patterns, fs) ==
  Layouts({ to_ascii_lowercase(fs[i]) : i \in 1..Len(fs) })

\* HashSet::insert of each lowercased argument, in every iteration order the
\* set may end in: a set that already holds every argument is not modified.
InsertAll(patterns, fs) ==
  IF Inserted(patterns, fs) = Range(patterns)
  THEN { patterns }
  ELSE Layouts(Inserted(patterns, fs))

\* Mutant of RemoveAll: the arguments are looked up without lowercasing.
RemoveAll_raw(patterns, fs) ==
  LET gone == { fs[i] : i \in 1..Len(fs) }
      Keep(e) == e \notin gone
  IN SelectSeq(patterns, Keep)

\* Mutant of RemoveAll: an argument removes every element it is a prefix of.
RemoveAll_prefix(patterns, fs) ==
  LET gone == { to_ascii_lowercase(fs[i]) : i \in 1..Len(fs) }
      Keep(e) == \A g \in gone : ~(Len(g) <= Len(e) /\ SubSeq(e, 1, Len(g)) = g)
  IN SelectSeq(patterns, Keep)

\* HashSet::remove of each lowercased argument: the other elements stay in place.
RemoveAll(patterns, fs) ==
  LET gone == { to_ascii_lowercase(fs[i]) : i \in 1..Len(fs) }
      Keep(e) == e \notin gone
  IN SelectSeq(patterns, Keep)

\* Mutant of Classifies: the input is matched as it is.
Classifies_raw(regex, user_agent) == is_match(regex, user_agent)

\* check_bot on a detector whose compiled pattern is regex
Classifies(regex, user_agent) == is_match(regex, to_ascii_lowercase(user_agent))

NoTrip == [stage |-> "none", f |-> Str0, patterns |-> <<>>, regex |-> <<>>]

Call(op, arg, outcome, result) ==
  [op |-> op, arg |-> arg, prePatterns |-> user_agent_patterns,
   preRegex |-> user_agents_regex, outcome |-> outcome, result |-> result]

\* struct BotDetector: a set of strings without duplicates and a pattern string
TypeOK ==
  /\ status \in { "none", "ok", "panicked" }
  /\ \A i, j \in 1..Len(user_agent_patterns) :
       user_agent_patterns[i] = user_agent_patterns[j] => i = j
  /\ Len(user_agent_patterns) <= MaxPatterns
  /\ status = "none" <=> user_agents_regex = <<>>
  /\ last.op \in { "new", "append", "remove", "check_bot" }
  /\ last.outcome \in { "returned", "panic" }
  /\ trip.stage \in { "none", "appended", "removed" }

\* BotDetector::new(bot_entries), as the values of the variables after it
Constructed(bot_entries, layout) ==
  IF to_regex_panics(layout)
  THEN [status |-> "none", patterns |-> <<>>, regex |-> <<>>,
        last |-> [op |-> "new", arg |-> bot_entries, prePatterns |-> <<>>,
                  preRegex |-> <<>>, outcome |-> "panic", result |-> FALSE]]
  ELSE [status |-> "ok", patterns |-> layout, regex |-> to_regex(layout),
        last |-> [op |-> "new", arg |-> bot_entries, prePatterns |-> <<>>,
                  preRegex |-> <<>>, outcome |-> "returned", result |-> FALSE]]

NewLayouts(bot_entries) == Layouts(parse_lines(to_ascii_lowercase(bot_entries)))

Init ==
  \E text \in Texts : \E layout \in NewLayouts(text) :
    LET c == Constructed(text, layout)
    IN /\ status = c.status
       /\ user_agent_patterns = c.patterns
       /\ user_agents_regex = c.regex
       /\ last = c.last
       /\ trip = NoTrip

new(text) ==
  \E layout \in NewLayouts(text) :
    LET c == Constructed(text, layout)
    IN /\ status' = c.status
       /\ user_agent_patterns' = c.patterns
       /\ user_agents_regex' = c.regex
       /\ last' = c.last
       /\ trip' = NoTrip

\* Mutant of update_regex: the call returns without assigning the rebuilt matcher.
update_regex_stale(op, fs, patterns) ==
  /\ status' = "ok"
  /\ user_agents_regex' = user_agents_regex
  /\ last' = Call(op, fs, "returned", FALSE)

\* update_regex: assign the rebuilt matcher, or unwind out of the call.  The
\* detector outlives an unwound append or remove: its owner may catch the
\* unwind, or join the thread that made the call, and go on to query it.
\* Further mutation of such a detector is not followed; new replaces it.
update_regex(op, fs, patterns) ==
  IF to_regex_panics(patterns)
  THEN /\ status' = "panicked"
       /\ user_agents_regex' = user_agents_regex
       /\ last' = Call(op, fs, "panic", FALSE)
  ELSE /\ status' = "ok"
       /\ user_agents_regex' = to_regex(patterns)
       /\ last' = Call(op, fs, "returned", FALSE)

append(fs) ==
  /\ status = "ok"
  /\ Cardinality(Inserted(user_agent_patterns, fs)) <= MaxPatterns
  /\ \E layout \in InsertAll(user_agent_patterns, fs) :
       /\ user_agent_patterns' = layout
       /\ update_regex("append", fs, layout)
       /\ trip' = IF Len(fs) = 1 /\ ~to_regex_panics(layout)
                  THEN [stage |-> "appended", f |-> fs[1],
                        patterns |-> user_agent_patterns, regex |-> user_agents_regex]
                  ELSE NoTrip

remove(fs) ==
  /\ status = "ok"
  /\ LET layout == RemoveAll(user_agent_patterns, fs)
     IN /\ user_agent_patterns' = layout
        /\ update_regex("remove", fs, layout)
        /\ trip' = IF trip.stage = "appended" /\ fs = <<trip.f>>
                   THEN [trip EXCEPT !.stage = "removed"]
                   ELSE NoTrip

\* Mutant of check_bot: the call leaves the matcher of the empty set behind.
check_bot_resetting(user_agent) ==
  /\ status # "none"
  /\ last' = Call("check_bot", user_agent, "returned", Classifies(user_agents_regex, user_agent))
  /\ trip' = NoTrip
  /\ user_agents_regex' = to_regex(<<>>)
  /\ UNCHANGED <<status, user_agent_patterns>>

check_bot(user_agent) ==
  /\ status # "none"
  /\ last' = Call("check_bot", user_agent, "returned", Classifies(user_agents_regex, user_agent))
  /\ trip' = NoTrip
  /\ UNCHANGED <<status, user_agent_patterns, user_agents_regex>>

Next ==
  \/ \E text \in Texts : new(text)
  \/ \E fs \in ArgLists : append(fs)
  \/ \E fs \in ArgLists : remove(fs)
  \/ \E x \in Inputs : check_bot(x)

Spec == Init /\ [][Next]_vars


\* ------------------------------------------------------------- claims

PatternSet == Range(user_agent_patterns)

\* The lowercased fragments of an argument slice
Folded(fs) == { to_ascii_lowercase(fs[i]) : i \in 1..Len(fs) }

\* A fragment, taken on its own as a pattern, matches somewhere in the lowercased input
FragmentMatches(f, x) == RegexValid(f) /\ is_match(f, to_ascii_lowercase(x))

\* Every fragment of S is a valid regular expression on its own
AllValid(S) == \A f \in S : RegexValid(f)

\* Some fragment of S, on its own, matches the lowercased input
SomeMatches(S, x) == \E f \in S : FragmentMatches(f, x)

\* C1: whenever the last call returned, the compiled matcher is the one
\* to_regex builds from the pattern set as it is stored now.
C1_CompiledIsFresh ==
  status = "ok" => user_agents_regex = to_regex(user_agent_patterns)

\* C1 witness: an append or remove returned after changing the pattern set.
C1_Witness ==
  /\ status = "ok"
  /\ last.op \in { "append", "remove" }
  /\ last.outcome = "returned"
  /\ PatternSet # Range(last.prePatterns)
  /\ user_agents_regex # last.preRegex

\* C2 (as claimed): an append with a fragment that is no valid regular
\* expression reports an error and leaves the pattern set and the compiled
\* matcher as they were.
C2_AppendAllOrNothing ==
  (last.op = "append" /\ \E i \in 1..Len(last.arg) : ~RegexValid(last.arg[i]))
    => /\ last.outcome = "error"
       /\ user_agent_patterns = last.prePatterns
       /\ user_agents_regex = last.preRegex

\* C3 (as claimed, on the sets whose fragments are each valid): on a
\* non-empty pattern set, check_bot(x) is true exactly when some stored
\* fragment on its own matches the lowercased x.
C3_JoinIsDisjunction ==
  (status = "ok" /\ user_agent_patterns # <<>> /\ AllValid(PatternSet))
    => \A x \in Inputs :
         Classifies(user_agents_regex, x) <=> \E f \in PatternSet : FragmentMatches(f, x)

\* C4: with an empty pattern set, check_bot("") is true and check_bot(x) is
\* false for every non-empty x.
C4_EmptySetMatchesOnlyEmpty ==
  (status = "ok" /\ user_agent_patterns = <<>>)
    => /\ Classifies(user_agents_regex, Str0)
       /\ \A x \in Inputs \ { Str0 } : ~Classifies(user_agents_regex, x)

\* C4 witness: the set became empty through a remove call.
C4_Witness ==
  /\ status = "ok"
  /\ user_agent_patterns = <<>>
  /\ last.op = "remove"
  /\ last.prePatterns # <<>>

\* C5 (as claimed): new on a text holding a fragment that is no valid regular
\* expression returns an error value: no panic, no detector.
C5_NewReportsError ==
  (last.op = "new"
     /\ \E f \in parse_lines(to_ascii_lowercase(last.arg)) : ~RegexValid(f))
    => last.outcome = "error"

\* C6 (as claimed): every remove call returns; none ends in a compile failure.
C6_RemoveIsTotal ==
  last.op = "remove" => last.outcome = "returned"


\* The pattern set and every check_bot result are what they were before the
\* append([f]) of a completed append([f]); remove([f])
TripRestored ==
  /\ PatternSet = Range(trip.patterns)
  /\ \A x \in Inputs :
       Classifies(user_agents_regex, x) = Classifies(trip.regex, x)

Removed == Range(last.prePatterns) \cap Folded(last.arg)

\* What C8 and C9 say of check_bot is said of the sets the "|"-join renders
\* faithfully: every stored fragment valid on its own, and not the empty
\* fragment alone (C3 and C5 are about the other sets).
JoinFaithful == AllValid(PatternSet) /\ PatternSet # { Str0 }

Contains(x, f) == \E i \in 1..(Len(x) + 1) : i + Len(f) - 1 <= Len(x) /\ SubSeq(x, i, i + Len(f) - 1) = f

\* A fragment of letters only
IsLiteral(f) == f # <<>> /\ \A i \in 1..Len(f) : f[i] \in { "a", "A", "b", "B", "c" }

\* C12: two inputs that differ only in the case of ASCII letters are
\* classified alike by every detector, and a detector built by new from one
\* fragment of letters classifies as bots exactly the inputs that hold the
\* fragment's text in some ASCII case; the result a check_bot call returned
\* is the result for every input that differs from its argument in case only.
C12_CaseInsensitive ==
  status # "none"
    => /\ \A x, y \in Inputs :
            to_ascii_lowercase(x) = to_ascii_lowercase(y)
              => Classifies(user_agents_regex, x) = Classifies(user_agents_regex, y)
       /\ (last.op = "new" /\ IsLiteral(last.arg))
            => \A x \in Inputs :
                 Classifies(user_agents_regex, x)
                   <=> Contains(to_ascii_lowercase(x), to_ascii_lowercase(last.arg))
       /\ last.op = "check_bot"
            => \A y \in Inputs :
                 to_ascii_lowercase(y) = to_ascii_lowercase(last.arg)
                   => last.result = Classifies(user_agents_regex, y)

\* C12 witness: check_bot("Bc") returned true on the detector of new("Bc"),
\* which classifies "bc" as a bot too and "b" and "a" not.
C12_Witness ==
  /\ last.op = "check_bot"
  /\ last.arg = <<"B", "c">>
  /\ last.result
  /\ user_agent_patterns = << <<"b", "c">> >>
  /\ Classifies(user_agents_regex, <<"B", "c">>)
  /\ Classifies(user_agents_regex, <<"b", "c">>)
  /\ ~Classifies(user_agents_regex, <<"b">>)
  /\ ~Classifies(user_agents_regex, <<"a">>)

\* C13: no stored fragment holds an ASCII uppercase letter, whatever the
\* calls and whether or not the last one returned, and new, append and remove
\* act on the set through the lowercased form of their arguments only.
C13_StoredLowercase ==
  /\ \A f \in PatternSet : f = to_ascii_lowercase(f)
  /\ last.op = "append" => PatternSet = Range(last.prePatterns) \cup Folded(last.arg)
  /\ last.op = "remove" => PatternSet = Range(last.prePatterns) \ Folded(last.arg)
  /\ (last.op = "new" /\ status # "none")
       => PatternSet = { to_ascii_lowercase(l) : l \in parse_lines(last.arg) }

\* C13 witness: remove(["A"]) took the stored "a" out of a set that append
\* or new had put it in, and left other fragments.
C13_Witness ==
  /\ last.op = "remove"
  /\ last.arg = << <<"A">> >>
  /\ <<"a">> \in Range(last.prePatterns)
  /\ <<"a">> \notin PatternSet
  /\ PatternSet # {}

\* C14: every check_bot call runs against the matcher that to_regex builds
\* from the pattern set stored at the time of the call.
C14_NoTornCheck ==
  last.op = "check_bot" => last.preRegex = to_regex(last.prePatterns)

\* C15: a check_bot call returns a boolean and leaves the pattern set and the
\* matcher as they were, and its result is the one a call with the same
\* input returns on the detector it left behind.
C15_CheckBotPure ==
  last.op = "check_bot"
    => /\ last.outcome = "returned"
       /\ last.result \in BOOLEAN
       /\ user_agent_patterns = last.prePatterns
       /\ user_agents_regex = last.preRegex
       /\ last.result = Classifies(user_agents_regex, last.arg)

\* C15 witness: check_bot("ca") returned true on a detector of several fragments.
C15_Witness ==
  /\ last.op = "check_bot"
  /\ last.arg = <<"c", "a">>
  /\ last.result
  /\ Len(user_agent_patterns) >= 2

\* C16: the detector new(text) builds stores exactly the lowercased, trimmed
\* texts of the lines of text that are not blank after trimming.
C16_NewStoresTrimmed ==
  (last.op = "new" /\ status # "none")
    => PatternSet = { to_ascii_lowercase(trim(l)) :
                        l \in { m \in Range(lines(last.arg)) : trim(m) # <<>> } }

\* C17: a detector that holds the same set of fragments in any other
\* iteration order builds as well, and classifies every input as this
\* detector does.
C17_OrderIndependent ==
  status = "ok"
    => \A layout \in Layouts(PatternSet) :
         /\ ~to_regex_panics(layout)
         /\ \A x \in Inputs :
              Classifies(to_regex(layout), x) = Classifies(user_agents_regex, x)

\* The argument slices whose fragments are valid regular expressions
ValidLists == { fs \in ArgLists : AllValid(Folded(fs)) }

\* Two iteration orders hold the same set, both build, and the matchers
\* built from them classify every input alike
SameDetector(l, m) ==
  /\ Range(l) = Range(m)
  /\ ~to_regex_panics(l)
  /\ ~to_regex_panics(m)
  /\ \A x \in Inputs : Classifies(to_regex(l), x) = Classifies(to_regex(m), x)

\* C18: on the detector of every state, for slices xs and ys of valid
\* fragments, whatever append(xs) and then append(ys) can leave is the same
\* set, with the same check_bot results, as whatever one append of xs
\* followed by ys can leave, and no call unwinds; likewise for remove.
C18_BatchingEquivalent ==
  status = "ok"
    => \A xs, ys \in ValidLists :
         /\ Cardinality(Inserted(user_agent_patterns, xs \o ys)) <= MaxPatterns
              => \A first \in InsertAll(user_agent_patterns, xs) :
                   /\ ~to_regex_panics(first)
                   /\ \A second \in InsertAll(first, ys) :
                        \A single \in InsertAll(user_agent_patterns, xs \o ys) :
                          SameDetector(second, single)
         /\ LET first == RemoveAll(user_agent_patterns, xs)
            IN /\ ~to_regex_panics(first)
               /\ SameDetector(RemoveAll(first, ys), RemoveAll(user_agent_patterns, xs \o ys))

====
